---- MODULE Spec2Model ----
(***************************************************************************)
(* A model of client/executor/common/src/ebpf.rs: the bounds-checked       *)
(* accessor MemoryRef, the six syscalls registered by execute, and the     *)
(* execute function itself, run against a nondeterministic guest program.  *)
(*                                                                         *)
(* The machine is scaled down: a guest word is 0..WordMax instead of a     *)
(* u64, and the regions of the memory mapping sit RegionStride apart       *)
(* instead of 2^32 apart.  Bytes keep their real width (0..255) and the    *)
(* result of a comparison keeps its real encoding (i32, little endian).    *)
(*                                                                         *)
(* The guest program is any sequence of syscalls and other instructions    *)
(* the budget allows.  The loads and stores of its own instructions are    *)
(* the engine's business and leave memory alone here; what the syscalls    *)
(* and the supervisor do to memory is modelled in full.                    *)
(***************************************************************************)
EXTENDS Integers, Sequences, FiniteSets, TLC

VARIABLES
    pc,          \* the statement of execute that runs next
    program,     \* the elf image handed to execute: what the engine makes of it
    registry,    \* syscall_registry: the names registered so far, in order
    executable,  \* "none", "loaded" (from_elf) or "verified" (from_executable)
    mem_region,  \* the MemoryRegion built over input: <<>> or <<region>>
    regions,     \* the regions of the vm's MemoryMapping, <<>> before EbpfVm::new
    mem,         \* the host buffers behind the regions: program, stack, heap, input
    remaining,   \* TestInstructionMeter.remaining
    result,      \* the ProgramResult slot: of the last syscall, then of the run
    panic,       \* "none", or the payload of the panic that unwinds out of execute
    last,        \* the syscall being returned from: name and the five arguments
    pre,         \* mem as it was when that syscall was invoked
    touched,     \* the host bytes the accessor's raw copies touched in that syscall
    supervisor   \* what the SupervisorContext saw: calls, arguments, return value

vars == <<pc, program, registry, executable, mem_region, regions, mem, remaining,
          result, panic, last, pre, touched, supervisor>>

-----------------------------------------------------------------------------
(* Bounds of the model. *)

\* The largest guest word (u64::MAX in the program).
WordMax == 2047

\* The distance between the start addresses of two regions (2^32 in the engine).
RegionStride == 256

\* The length of the input buffer the caller hands to execute.
MaxInputLen == 4

\* The length of the engine's stack region.
StackLen == 4

\* The largest buffer the host allocator is sure to grant.
HostAllocLimit == 64

\* The instruction budget (TestInstructionMeter.remaining, 100_000_000 in the program).
MaxInstructions == 2

-----------------------------------------------------------------------------
(* Constants of the program. *)

\* c as u8 keeps the value modulo 2^8.
U8Modulus == 256

\* The number of bytes of an i32 (to_le_bytes).
I32Bytes == 4

\* isize::MAX, the largest capacity a Vec accepts: half the word range.
ISIZE_MAX == WordMax \div 2

\* ebpf::MM_PROGRAM_START .. ebpf::MM_INPUT_START: region i starts at i * stride.
MM_PROGRAM_START == 1 * RegionStride
MM_STACK_START == 2 * RegionStride
MM_HEAP_START == 3 * RegionStride
MM_INPUT_START == 4 * RegionStride

Min(a, b) == IF a < b THEN a ELSE b

\* The six names execute registers, in the order of its calls.
SyscallNames ==
    <<"abort", "ext_syscall", "sol_memcpy_", "sol_memmove_", "sol_memset_", "sol_memcmp_">>

\* The read-only data of a valid program: a constant buffer of four 0x41 bytes.
RoData == <<65, 65, 65, 65>>

-----------------------------------------------------------------------------
(* ProgramResult = StableResult<u64, EbpfError>. *)

Ok(v) == [tag |-> "Ok", val |-> v, err |-> "none"]
Err(e) == [tag |-> "Err", val |-> 0, err |-> e]

NoCall == [name |-> "none", args |-> <<>>]
NoTouch == [loads |-> {}, stores |-> {}]
NoSupervisor == [calls |-> 0, args |-> <<>>, ret |-> 0]

-----------------------------------------------------------------------------
(* The memory mapping of the vm and the accessor over it. *)

\* MemoryRegion: the host buffer `buf` shown to the guest at vm_addr.
Region(buf, vm_addr, len, writable) ==
    [buf |-> buf, vm_addr |-> vm_addr, len |-> len, writable |-> writable]

\* MemoryRegion::new_writable(input, ebpf::MM_INPUT_START)
InputRegion(m) == Region("input", MM_INPUT_START, Len(m.input), TRUE)

\* The regions EbpfVm::new maps: the engine's own (program read-only, stack,
\* the heap handed in as &mut []) and then the additional ones, vec![mem_region].
VmRegions(m, additional) ==
    << Region("program", MM_PROGRAM_START, Len(m.program), FALSE),
       Region("stack", MM_STACK_START, Len(m.stack), TRUE),
       Region("heap", MM_HEAP_START, Len(m.heap), TRUE) >> \o additional

\* MemoryRegion::vm_to_host: the offset of [vm_addr, vm_addr + len) in the region,
\* with the sum checked for overflow of the word.
VmToHost(region, vm_addr, len) ==
    IF vm_addr < region.vm_addr
    THEN [ok |-> FALSE, buf |-> "none", off |-> 0]
    ELSE LET begin_offset == vm_addr - region.vm_addr
             end_offset == begin_offset + len
         IN  IF end_offset <= WordMax /\ end_offset <= region.len
             THEN [ok |-> TRUE, buf |-> region.buf, off |-> begin_offset]
             ELSE [ok |-> FALSE, buf |-> "none", off |-> 0]

\* Map without the check of the region's permission.
Map_any_access(rs, access_type, vm_addr, len) ==
    LET index == (vm_addr \div RegionStride)
    IN  IF index \in DOMAIN rs
        THEN VmToHost(rs[index], vm_addr, len)
        ELSE [ok |-> FALSE, buf |-> "none", off |-> 0]

\* MemoryMapping::map(access_type, vm_addr, len): the region is picked by the high
\* bits of the address; a store needs a writable region.
Map(rs, access_type, vm_addr, len) ==
    LET index == (vm_addr \div RegionStride)
    IN  IF index \in DOMAIN rs /\ (access_type = "Load" \/ rs[index].writable)
        THEN VmToHost(rs[index], vm_addr, len)
        ELSE [ok |-> FALSE, buf |-> "none", off |-> 0]

\* A byte of a host buffer. Map has validated every offset the program reads, so
\* the second branch is not taken by the program.
HostByte(m, buf, k) == IF k \in 1..Len(m[buf]) THEN m[buf][k] ELSE 0

\* MemoryRef::read(offset, buf) with buf.len() = n: map(Load).unwrap(), then
\* copy_from_slice of n bytes from the host address.
MemoryRef_read(rs, m, offset, n) ==
    LET a == Map(rs, "Load", offset, n)
    IN  IF ~a.ok
        THEN [panic |-> "AccessViolation", data |-> <<>>, loads |-> {}]
        ELSE [panic |-> "none",
              data |-> [i \in 1..n |-> HostByte(m, a.buf, a.off + i)],
              loads |-> {<<a.buf, a.off + i>> : i \in 1..n}]

\* MemoryRef::write that writes the part of buf that fits when the range runs
\* past the end of its region.
MemoryRef_write_clamped(rs, m, offset, buf) ==
    LET a == Map(rs, "Store", offset, 0)
    IN  IF ~a.ok
        THEN [panic |-> "AccessViolation", mem |-> m, stores |-> {}]
        ELSE [panic |-> "none",
              mem |-> [m EXCEPT ![a.buf] =
                          [k \in 1..Len(@) |->
                              IF k - a.off \in 1..Len(buf) THEN buf[k - a.off] ELSE @[k]]],
              stores |-> {<<a.buf, a.off + i>> : i \in 1..Min(Len(buf), Len(m[a.buf]) - a.off)}]

\* MemoryRef::write(offset, buf): map(Store).unwrap(), then copy_nonoverlapping of
\* buf.len() bytes to the host address.
MemoryRef_write(rs, m, offset, buf) ==
    LET a == Map(rs, "Store", offset, Len(buf))
    IN  IF ~a.ok
        THEN [panic |-> "AccessViolation", mem |-> m, stores |-> {}]
        ELSE [panic |-> "none",
              mem |-> [m EXCEPT ![a.buf] =
                          [k \in 1..Len(@) |->
                              IF k - a.off \in 1..Len(buf) THEN buf[k - a.off] ELSE @[k]]],
              stores |-> {<<a.buf, a.off + i>> : i \in 1..Len(buf)}]

\* vec![x; n as usize]: a capacity above isize::MAX panics; a large one is granted
\* or refused by the host's allocator (a refusal aborts the process).
VecAlloc(n) ==
    IF n > ISIZE_MAX THEN {"CapacityOverflow"}
    ELSE IF n > HostAllocLimit THEN {"none", "AllocError"}
    ELSE {"none"}

-----------------------------------------------------------------------------
(* The syscalls. Each gives the set of effects the call can have on the run:   *)
(* the memory after it, the result slot, the panic it raised and the host bytes *)
(* its raw copies touched.                                                      *)

Effect(m, res, p, loads, stores, sup) ==
    [mem |-> m, result |-> res, panic |-> p,
     touched |-> [loads |-> loads, stores |-> stores], supervisor |-> sup]

\* abort_syscall that aborts only on a non-zero first argument.
abort_syscall_on_code(rs, m, res, sup, arg1, arg2, arg3, arg4, arg5) ==
    {Effect(m, IF arg1 = 0 THEN Ok(0) ELSE Err("UserError"), "none", {}, {}, sup)}

\* abort_syscall: *result = Err(UserError(AbortError)), whatever the arguments.
abort_syscall(rs, m, res, sup, arg1, arg2, arg3, arg4, arg5) ==
    {Effect(m, Err("UserError"), "none", {}, {}, sup)}

\* A copy made in place, byte after byte from the lowest address, with no buffer.
RECURSIVE ForwardCopy(_, _, _, _, _, _)
ForwardCopy(rs, m, dest, src, n, i) ==
    IF i > n THEN m
    ELSE ForwardCopy(rs,
                     MemoryRef_write(rs, m, dest + i - 1,
                                     MemoryRef_read(rs, m, src + i - 1, 1).data).mem,
                     dest, src, n, i + 1)

\* sol_memcpy_syscall copying in place instead of through a buffer.
MemcpyBody_in_place(rs, m, res, sup, dest, src, n) ==
    LET r == MemoryRef_read(rs, m, src, n)
        w == MemoryRef_write(rs, m, dest, r.data)
    IN  IF r.panic # "none" THEN Effect(m, res, r.panic, {}, {}, sup)
        ELSE IF w.panic # "none" THEN Effect(m, res, w.panic, r.loads, {}, sup)
        ELSE Effect(ForwardCopy(rs, m, dest, src, n, 1), Ok(0), "none",
                    r.loads, w.stores, sup)

\* The part of sol_memcpy_syscall after the buffer is allocated.
MemcpyBody(rs, m, res, sup, dest, src, n) ==
    LET r == MemoryRef_read(rs, m, src, n)
        w == MemoryRef_write(rs, m, dest, r.data)
    IN  IF r.panic # "none" THEN Effect(m, res, r.panic, {}, {}, sup)
        ELSE IF w.panic # "none" THEN Effect(m, res, w.panic, r.loads, {}, sup)
        ELSE Effect(w.mem, Ok(0), "none", r.loads, w.stores, sup)

\* sol_memcpy_syscall(dest, src, n)
sol_memcpy_syscall(rs, m, res, sup, dest, src, n, arg4, arg5) ==
    {IF a # "none" THEN Effect(m, res, a, {}, {}, sup)
     ELSE MemcpyBody(rs, m, res, sup, dest, src, n) : a \in VecAlloc(n)}

\* sol_memmove_syscall copying in place instead of through a buffer.
MemmoveBody_in_place(rs, m, res, sup, dest, src, n) ==
    LET r == MemoryRef_read(rs, m, src, n)
        w == MemoryRef_write(rs, m, dest, r.data)
    IN  IF r.panic # "none" THEN Effect(m, res, r.panic, {}, {}, sup)
        ELSE IF w.panic # "none" THEN Effect(m, res, w.panic, r.loads, {}, sup)
        ELSE Effect(ForwardCopy(rs, m, dest, src, n, 1), Ok(0), "none",
                    r.loads, w.stores, sup)

\* The part of sol_memmove_syscall after the buffer is allocated.
MemmoveBody(rs, m, res, sup, dest, src, n) ==
    LET r == MemoryRef_read(rs, m, src, n)
        w == MemoryRef_write(rs, m, dest, r.data)
    IN  IF r.panic # "none" THEN Effect(m, res, r.panic, {}, {}, sup)
        ELSE IF w.panic # "none" THEN Effect(m, res, w.panic, r.loads, {}, sup)
        ELSE Effect(w.mem, Ok(0), "none", r.loads, w.stores, sup)

\* sol_memmove_syscall(dest, src, n)
sol_memmove_syscall(rs, m, res, sup, dest, src, n, arg4, arg5) ==
    {IF a # "none" THEN Effect(m, res, a, {}, {}, sup)
     ELSE MemmoveBody(rs, m, res, sup, dest, src, n) : a \in VecAlloc(n)}

\* sol_memset_syscall with c saturated to a byte instead of truncated.
MemsetBody_saturating(rs, m, res, sup, s, c, n) ==
    LET buf == [i \in 1..n |-> Min(c, U8Modulus - 1)]
        w == MemoryRef_write(rs, m, s, buf)
    IN  IF w.panic # "none" THEN Effect(m, res, w.panic, {}, {}, sup)
        ELSE Effect(w.mem, Ok(0), "none", {}, w.stores, sup)

\* The part of sol_memset_syscall after the buffer vec![c as u8; n] is allocated.
MemsetBody(rs, m, res, sup, s, c, n) ==
    LET buf == [i \in 1..n |-> c % U8Modulus]
        w == MemoryRef_write(rs, m, s, buf)
    IN  IF w.panic # "none" THEN Effect(m, res, w.panic, {}, {}, sup)
        ELSE Effect(w.mem, Ok(0), "none", {}, w.stores, sup)

\* sol_memset_syscall(s, c, n)
sol_memset_syscall(rs, m, res, sup, s, c, n, arg4, arg5) ==
    {IF a # "none" THEN Effect(m, res, a, {}, {}, sup)
     ELSE MemsetBody(rs, m, res, sup, s, c, n) : a \in VecAlloc(n)}

\* Vec<u8>::cmp: the first differing byte decides, then the lengths.
RECURSIVE CmpFrom(_, _, _)
CmpFrom(a, b, i) ==
    IF i > Min(Len(a), Len(b))
    THEN IF Len(a) < Len(b) THEN "Less"
         ELSE IF Len(a) > Len(b) THEN "Greater" ELSE "Equal"
    ELSE IF a[i] < b[i] THEN "Less"
    ELSE IF a[i] > b[i] THEN "Greater"
    ELSE CmpFrom(a, b, i + 1)

\* A comparison of the bytes as signed (i8) values.
VecCmp_signed(a, b) ==
    CmpFrom([i \in 1..Len(a) |-> IF a[i] >= 128 THEN a[i] - U8Modulus ELSE a[i]],
            [i \in 1..Len(b) |-> IF b[i] >= 128 THEN b[i] - U8Modulus ELSE b[i]], 1)

VecCmp(a, b) == CmpFrom(a, b, 1)

\* i32::to_le_bytes: the four bytes of the two's complement, lowest first.
ToLeBytes(v) == [k \in 1..I32Bytes |-> (v \div (U8Modulus ^ (k - 1))) % U8Modulus]

\* The value the match of sol_memcmp_syscall writes for an ordering.
OrderingValue(o) == IF o = "Less" THEN -1 ELSE IF o = "Equal" THEN 0 ELSE 1

\* The part of sol_memcmp_syscall after buf1 and buf2 are allocated.
MemcmpBody(rs, m, res, sup, s1, s2, n, result_ptr) ==
    LET r1 == MemoryRef_read(rs, m, s1, n)
        r2 == MemoryRef_read(rs, m, s2, n)
        w == MemoryRef_write(rs, m, result_ptr,
                             ToLeBytes(OrderingValue(VecCmp(r1.data, r2.data))))
    IN  IF r1.panic # "none" THEN Effect(m, res, r1.panic, {}, {}, sup)
        ELSE IF r2.panic # "none" THEN Effect(m, res, r2.panic, r1.loads, {}, sup)
        ELSE IF w.panic # "none"
             THEN Effect(m, res, w.panic, r1.loads \cup r2.loads, {}, sup)
        ELSE Effect(w.mem, Ok(0), "none", r1.loads \cup r2.loads, w.stores, sup)

\* sol_memcmp_syscall(s1, s2, n, result_ptr)
sol_memcmp_syscall(rs, m, res, sup, s1, s2, n, result_ptr, arg5) ==
    {IF a1 # "none" THEN Effect(m, res, a1, {}, {}, sup)
     ELSE IF a2 # "none" THEN Effect(m, res, a2, {}, {}, sup)
     ELSE MemcmpBody(rs, m, res, sup, s1, s2, n, result_ptr)
        : a1 \in VecAlloc(n), a2 \in VecAlloc(n)}

\* The values, addresses and lengths a supervisor uses in the model.
SupervisorRets == {0, 1, WordMax}
SupervisorAddrs == {0, MM_PROGRAM_START, MM_INPUT_START}
SupervisorLens == {1, MaxInputLen + 1}

\* What a SupervisorContext may do in supervisor_call: nothing, or one read or one
\* write of guest memory through memory_ref; it then returns ret.
SupervisorBehaviours ==
    {[kind |-> "idle", addr |-> 0, n |-> 0, byte |-> 0, ret |-> r] : r \in SupervisorRets}
    \cup {[kind |-> "read", addr |-> a, n |-> n, byte |-> 0, ret |-> r]
            : a \in SupervisorAddrs, n \in SupervisorLens, r \in SupervisorRets}
    \cup {[kind |-> "write", addr |-> a, n |-> n, byte |-> 7, ret |-> r]
            : a \in SupervisorAddrs, n \in SupervisorLens, r \in SupervisorRets}

\* SupervisorContext::supervisor_call(r1, .., r5, memory_ref) behaving as b.
supervisor_call(rs, m, sup, r1, r2, r3, r4, r5, b) ==
    LET seen == [calls |-> sup.calls + 1, args |-> <<r1, r2, r3, r4, r5>>, ret |-> b.ret]
        r == MemoryRef_read(rs, m, b.addr, b.n)
        w == MemoryRef_write(rs, m, b.addr, [i \in 1..b.n |-> b.byte])
    IN  IF b.kind = "read"
        THEN [mem |-> m, panic |-> r.panic, loads |-> r.loads, stores |-> {},
              ret |-> b.ret, supervisor |-> seen]
        ELSE IF b.kind = "write"
        THEN [mem |-> w.mem, panic |-> w.panic, loads |-> {}, stores |-> w.stores,
              ret |-> b.ret, supervisor |-> seen]
        ELSE [mem |-> m, panic |-> "none", loads |-> {}, stores |-> {},
              ret |-> b.ret, supervisor |-> seen]

\* ext_syscall handing the supervisor's value to the guest.
ExtResult_propagated(c) == Ok(c.ret)

\* The part of ext_syscall after the supervisor has returned c: *result = Ok(0).
ExtResult(c) == Ok(0)

\* ext_syscall(arg1, .., arg5): one supervisor_call, its value dropped.
ext_syscall(rs, m, res, sup, arg1, arg2, arg3, arg4, arg5) ==
    {LET c == supervisor_call(rs, m, sup, arg1, arg2, arg3, arg4, arg5, b)
     IN  IF c.panic # "none"
         THEN Effect(c.mem, res, c.panic, c.loads, c.stores, c.supervisor)
         ELSE Effect(c.mem, ExtResult(c), "none", c.loads, c.stores, c.supervisor)
        : b \in SupervisorBehaviours}

-----------------------------------------------------------------------------
(* execute(program, input, context), statement by statement. *)

Zeros(k) == [i \in 1..k |-> 0]
Ramp(k) == [i \in 1..k |-> i]

\* The input buffers a caller hands in.
InputChoices == {Zeros(MaxInputLen), Ramp(MaxInputLen), Ramp(MaxInputLen - 2)}

Init ==
    /\ pc = "register"
    /\ program \in {"bad_elf", "unverifiable", "valid"}
    /\ registry = <<>>
    /\ executable = "none"
    /\ mem_region = <<>>
    /\ regions = <<>>
    /\ \E input \in InputChoices :
          mem = [program |-> <<>>, stack |-> <<>>, heap |-> <<>>, input |-> input]
    /\ remaining = 0
    /\ result = Ok(0)
    /\ panic = "none"
    /\ last = NoCall
    /\ pre = mem
    /\ touched = NoTouch
    /\ supervisor = NoSupervisor

\* syscall_registry.register_syscall_by_name(name, f).unwrap(), six times.
RegisterSyscall ==
    /\ pc = "register"
    /\ registry' = Append(registry, SyscallNames[Len(registry) + 1])
    /\ pc' = IF Len(registry') = Len(SyscallNames) THEN "from_elf" ELSE "register"
    /\ UNCHANGED <<program, executable, mem_region, regions, mem, remaining, result,
                   panic, last, pre, touched, supervisor>>

\* Executable::from_elf(program, config, syscall_registry).unwrap()
FromElf ==
    /\ pc = "from_elf"
    /\ IF program = "bad_elf"
       THEN /\ panic' = "ElfError"
            /\ pc' = "panicked"
            /\ UNCHANGED <<executable, mem, pre>>
       ELSE /\ executable' = "loaded"
            /\ mem' = [mem EXCEPT !.program = RoData]
            /\ pre' = mem'
            /\ pc' = "new_writable"
            /\ UNCHANGED panic
    /\ UNCHANGED <<program, registry, mem_region, regions, remaining, result, last,
                   touched, supervisor>>

\* MemoryRegion::new_writable(input, ebpf::MM_INPUT_START)
NewWritable ==
    /\ pc = "new_writable"
    /\ mem_region' = <<InputRegion(mem)>>
    /\ pc' = "from_executable"
    /\ UNCHANGED <<program, registry, executable, regions, mem, remaining, result,
                   panic, last, pre, touched, supervisor>>

\* execute going on to the vm with the executable as loaded, not verified.
FromExecutable_skipped ==
    /\ pc = "from_executable"
    /\ pc' = "vm_new"
    /\ UNCHANGED <<program, registry, executable, mem_region, regions, mem, remaining,
                   result, panic, last, pre, touched, supervisor>>

\* VerifiedExecutable::from_executable(executable).unwrap()
FromExecutable ==
    /\ pc = "from_executable"
    /\ IF program = "unverifiable"
       THEN /\ panic' = "VerifierError"
            /\ pc' = "panicked"
            /\ UNCHANGED executable
       ELSE /\ executable' = "verified"
            /\ pc' = "vm_new"
            /\ UNCHANGED panic
    /\ UNCHANGED <<program, registry, mem_region, regions, mem, remaining, result,
                   last, pre, touched, supervisor>>

\* EbpfVm::new(&verified_executable, &mut ProcessData { context }, &mut [],
\* vec![mem_region]).unwrap(): the engine adds its zeroed stack.
EbpfVmNew ==
    /\ pc = "vm_new"
    /\ mem' = [mem EXCEPT !.stack = Zeros(StackLen)]
    /\ pre' = mem'
    /\ regions' = VmRegions(mem', mem_region)
    /\ pc' = "execute"
    /\ UNCHANGED <<program, registry, executable, mem_region, remaining, result,
                   panic, last, touched, supervisor>>

\* vm.execute_program_interpreted(&mut TestInstructionMeter { remaining: .. })
ExecuteProgramInterpreted ==
    /\ pc = "execute"
    /\ remaining' = MaxInstructions
    /\ pc' = "run"
    /\ UNCHANGED <<program, registry, executable, mem_region, regions, mem, result,
                   panic, last, pre, touched, supervisor>>

-----------------------------------------------------------------------------
(* The interpreter running a guest program: any sequence of instructions, a    *)
(* syscall instruction carrying any arguments in r1..r5.                        *)

\* The arguments the model's guest programs pass.
SrcAddrs == {0, MM_PROGRAM_START, MM_INPUT_START, MM_INPUT_START + 1}
DestAddrs == {MM_PROGRAM_START, MM_STACK_START, MM_HEAP_START, MM_INPUT_START,
              MM_INPUT_START + 1, MM_INPUT_START + 2, WordMax}
Lens == {0, 2, 3, MaxInputLen, MaxInputLen + 1, HostAllocLimit + 1, ISIZE_MAX + 1}
FillValues == {0, 65, U8Modulus + 65}
CmpLens == {0, 2, MaxInputLen, MaxInputLen + 1, ISIZE_MAX + 1}
ResultAddrs == {MM_PROGRAM_START, MM_STACK_START, MM_STACK_START + 1, MM_INPUT_START}
OtherArgs == {0, WordMax}

\* The engine invokes the registered function `name` with args; e is its effect.
\* A panic in the function unwinds out of execute.
Invoke(name, args, e) ==
    /\ remaining' = remaining - 1
    /\ last' = [name |-> name, args |-> args]
    /\ pre' = mem
    /\ mem' = e.mem
    /\ result' = e.result
    /\ panic' = e.panic
    /\ touched' = e.touched
    /\ supervisor' = e.supervisor
    /\ pc' = IF e.panic # "none" THEN "panicked" ELSE "sysret"
    /\ UNCHANGED <<program, registry, executable, mem_region, regions>>

\* The interpreter is at a call instruction for the registered function `name`.
AtCall(name) ==
    /\ pc = "run"
    /\ remaining > 0
    /\ name \in {registry[i] : i \in DOMAIN registry}

CallAbort ==
    /\ AtCall("abort")
    /\ \E a1 \in OtherArgs, a2 \in OtherArgs :
            \E e \in abort_syscall(regions, mem, result, supervisor, a1, a2, 0, 0, 0) :
                Invoke("abort", <<a1, a2, 0, 0, 0>>, e)

CallExt ==
    /\ AtCall("ext_syscall")
    /\ \E a1 \in OtherArgs :
            \E e \in ext_syscall(regions, mem, result, supervisor, a1, 1, 2, 3, 4) :
                Invoke("ext_syscall", <<a1, 1, 2, 3, 4>>, e)

CallMemcpy ==
    /\ AtCall("sol_memcpy_")
    /\ \E dest \in DestAddrs, src \in SrcAddrs, n \in Lens :
            \E e \in sol_memcpy_syscall(regions, mem, result, supervisor, dest, src, n, 0, 0) :
                Invoke("sol_memcpy_", <<dest, src, n, 0, 0>>, e)

CallMemmove ==
    /\ AtCall("sol_memmove_")
    /\ \E dest \in DestAddrs, src \in SrcAddrs, n \in Lens :
            \E e \in sol_memmove_syscall(regions, mem, result, supervisor, dest, src, n, 0, 0) :
                Invoke("sol_memmove_", <<dest, src, n, 0, 0>>, e)

CallMemset ==
    /\ AtCall("sol_memset_")
    /\ \E s \in DestAddrs, c \in FillValues, n \in Lens :
            \E e \in sol_memset_syscall(regions, mem, result, supervisor, s, c, n, 0, 0) :
                Invoke("sol_memset_", <<s, c, n, 0, 0>>, e)

CallMemcmp ==
    /\ AtCall("sol_memcmp_")
    /\ \E s1 \in SrcAddrs, s2 \in SrcAddrs, n \in CmpLens, result_ptr \in ResultAddrs :
            \E e \in sol_memcmp_syscall(regions, mem, result, supervisor,
                                        s1, s2, n, result_ptr, 0) :
                Invoke("sol_memcmp_", <<s1, s2, n, result_ptr, 0>>, e)

\* The interpreter takes the syscall's result: an Err ends the run, an Ok goes to r0
\* and the program continues.
SyscallReturn ==
    /\ pc = "sysret"
    /\ IF result.tag = "Err"
       THEN /\ pc' = "unwrap"
            /\ UNCHANGED <<last, pre, touched, supervisor>>
       ELSE /\ pc' = "run"
            /\ last' = NoCall
            /\ pre' = mem
            /\ touched' = NoTouch
            /\ supervisor' = NoSupervisor
    /\ UNCHANGED <<program, registry, executable, mem_region, regions, mem, remaining,
                   result, panic>>

\* An instruction that is neither a syscall nor exit.
GuestInstruction ==
    /\ pc = "run"
    /\ remaining > 0
    /\ remaining' = remaining - 1
    /\ UNCHANGED <<pc, program, registry, executable, mem_region, regions, mem, result,
                   panic, last, pre, touched, supervisor>>

\* exit: the run completes with r0.
GuestExit ==
    /\ pc = "run"
    /\ remaining > 0
    /\ \E r0 \in OtherArgs : result' = Ok(r0)
    /\ remaining' = remaining - 1
    /\ pc' = "unwrap"
    /\ UNCHANGED <<program, registry, executable, mem_region, regions, mem, panic,
                   last, pre, touched, supervisor>>

\* An instruction the engine faults on (a division by zero, a load or store of the
\* program outside the mapping): the run ends with the engine's error.
GuestFault ==
    /\ pc = "run"
    /\ remaining > 0
    /\ result' = Err("EngineFault")
    /\ remaining' = remaining - 1
    /\ pc' = "unwrap"
    /\ UNCHANGED <<program, registry, executable, mem_region, regions, mem, panic,
                   last, pre, touched, supervisor>>

\* The meter is used up: the engine ends the run with ExceededMaxInstructions.
MeterExceeded ==
    /\ pc = "run"
    /\ remaining = 0
    /\ result' = Err("ExceededMaxInstructions")
    /\ pc' = "unwrap"
    /\ UNCHANGED <<program, registry, executable, mem_region, regions, mem, remaining,
                   panic, last, pre, touched, supervisor>>

\* execute dropping the run's result without unwrapping it.
Unwrap_dropped ==
    /\ pc = "unwrap"
    /\ pc' = "returned"
    /\ UNCHANGED <<program, registry, executable, mem_region, regions, mem, remaining,
                   result, panic, last, pre, touched, supervisor>>

\* let _res = vm.execute_program_interpreted(..).unwrap(): an Err panics, an Ok is
\* bound to _res and execute returns ().
Unwrap ==
    /\ pc = "unwrap"
    /\ IF result.tag = "Ok"
       THEN /\ pc' = "returned"
            /\ UNCHANGED panic
       ELSE /\ pc' = "panicked"
            /\ panic' = result.err
    /\ UNCHANGED <<program, registry, executable, mem_region, regions, mem, remaining,
                   result, last, pre, touched, supervisor>>

Next ==
    \/ RegisterSyscall
    \/ FromElf
    \/ NewWritable
    \/ FromExecutable
    \/ EbpfVmNew
    \/ ExecuteProgramInterpreted
    \/ CallAbort
    \/ CallExt
    \/ CallMemcpy
    \/ CallMemmove
    \/ CallMemset
    \/ CallMemcmp
    \/ SyscallReturn
    \/ GuestInstruction
    \/ GuestExit
    \/ GuestFault
    \/ MeterExceeded
    \/ Unwrap

Spec == Init /\ [][Next]_vars

-----------------------------------------------------------------------------
(* Vocabulary of the properties.  None of it is used by the model above.      *)

MemoryServices == {"sol_memcpy_", "sol_memmove_", "sol_memset_", "sol_memcmp_"}

\* A syscall has been invoked and the state still shows it.
Called(name) == last.name = name

Arg(i) == last.args[i]

\* [addr, addr + n) is fully inside the input region.
InInput(addr, n) ==
    /\ regions # <<>>
    /\ MM_INPUT_START <= addr
    /\ addr + n <= MM_INPUT_START + Len(pre.input)

\* [addr, addr + n) is fully inside one region of the mapping that permits access.
InRegion(access, addr, n) ==
    \E i \in DOMAIN regions :
        /\ access = "Load" \/ regions[i].writable
        /\ regions[i].vm_addr <= addr
        /\ addr + n <= regions[i].vm_addr + regions[i].len

\* The byte of memory m at guest address a, for a mapped address.
GuestByte(m, a) ==
    LET i == CHOOSE j \in DOMAIN regions :
                 regions[j].vm_addr <= a /\ a < regions[j].vm_addr + regions[j].len
    IN  m[regions[i].buf][a - regions[i].vm_addr + 1]

\* The n bytes of memory m at guest addresses addr .. addr + n - 1.
GuestBytes(m, addr, n) == [k \in 1..n |-> GuestByte(m, addr + k - 1)]

\* Some byte of [addr, addr + n) lies outside the input region.
OutsideInput(addr, n) == n > 0 /\ ~InInput(addr, n)

\* Some range the last memory service names has a byte outside the input region.
RangesOutsideInput ==
    CASE Called("sol_memcpy_") \/ Called("sol_memmove_") ->
            OutsideInput(Arg(2), Arg(3)) \/ OutsideInput(Arg(1), Arg(3))
      [] Called("sol_memset_") -> OutsideInput(Arg(1), Arg(3))
      [] Called("sol_memcmp_") ->
            \/ OutsideInput(Arg(1), Arg(3))
            \/ OutsideInput(Arg(2), Arg(3))
            \/ OutsideInput(Arg(4), I32Bytes)
      [] OTHER -> FALSE

\* The ranges the last memory service names are all inside a region that permits
\* the access: load for what it reads, store for what it writes.
RangesInRegions ==
    CASE Called("sol_memcpy_") \/ Called("sol_memmove_") ->
            InRegion("Load", Arg(2), Arg(3)) /\ InRegion("Store", Arg(1), Arg(3))
      [] Called("sol_memset_") -> InRegion("Store", Arg(1), Arg(3))
      [] Called("sol_memcmp_") ->
            /\ InRegion("Load", Arg(1), Arg(3))
            /\ InRegion("Load", Arg(2), Arg(3))
            /\ InRegion("Store", Arg(4), I32Bytes)
      [] OTHER -> TRUE

\* The outcome of the run, in the words of the specification's taxonomy.
Outcome ==
    IF pc \notin {"unwrap", "returned", "panicked"} THEN "Running"
    ELSE IF panic \in {"ElfError", "VerifierError"} THEN "LoadFault"
    ELSE IF panic = "AccessViolation" THEN "BoundsFault"
    ELSE IF panic \in {"CapacityOverflow", "AllocError"} THEN "AllocationFailure"
    ELSE IF result.tag = "Ok" THEN "Completed"
    ELSE IF result.err = "UserError" THEN "UserAbort"
    ELSE IF result.err = "ExceededMaxInstructions" THEN "BudgetExhausted"
    ELSE "RuntimeFault"

-----------------------------------------------------------------------------
-----------------------------------------------------------------------------
\* A host byte <<buffer, offset>> lies in a region of the mapping (a writable one
\* when store is asked for).
Exposed(cell, store) ==
    \E i \in DOMAIN regions :
        /\ regions[i].buf = cell[1]
        /\ cell[2] \in 1..regions[i].len
        /\ store => regions[i].writable

\* C2: in every state, every host byte a service or the supervisor read lies in a
\* region of the mapping, every byte written lies in a writable region, and no
\* other byte of memory differs from what it was before the call; the program's
\* read-only data is never modified.
C2_AccessesAreValidated ==
    /\ \A c \in touched.loads : Exposed(c, FALSE)
    /\ \A c \in touched.stores : Exposed(c, TRUE)
    /\ \A b \in DOMAIN mem :
          /\ Len(mem[b]) = Len(pre[b])
          /\ \A k \in 1..Len(mem[b]) :
                <<b, k>> \notin touched.stores => mem[b][k] = pre[b][k]
    /\ executable # "none" => mem.program = RoData

\* The supervisor has written guest memory through the accessor it was handed.
C2_Witness ==
    /\ Called("ext_syscall")
    /\ touched.stores = {<<"input", 1>>}
    /\ mem.input[1] = 7
    /\ pc = "sysret"

-----------------------------------------------------------------------------
\* C3: after copy(dest, src, n) with both ranges inside the input region, also
\* when they overlap, the bytes at dest are the bytes that were at src before the
\* call, and the result is 0.
C3_CopyYieldsSource ==
    (Called("sol_memcpy_") /\ InInput(Arg(2), Arg(3)) /\ InInput(Arg(1), Arg(3)))
        => /\ pc # "panicked"
           /\ result = Ok(0)
           /\ GuestBytes(mem, Arg(1), Arg(3)) = GuestBytes(pre, Arg(2), Arg(3))

\* A copy of three bytes one byte up, over a buffer of distinct bytes.
C3_Witness ==
    /\ Called("sol_memcpy_")
    /\ Arg(1) = MM_INPUT_START + 1 /\ Arg(2) = MM_INPUT_START /\ Arg(3) = 3
    /\ pre.input = Ramp(MaxInputLen)
    /\ SubSeq(mem.input, 1, 4) = <<1, 1, 2, 3>>

-----------------------------------------------------------------------------
\* Memory m after the n bytes at src are snapshot and the snapshot written at dest.
SnapshotThenWrite(m, dest, src, n) ==
    LET snapshot == GuestBytes(m, src, n)
    IN  [b \in DOMAIN m |->
            [k \in 1..Len(m[b]) |->
                LET hit == {i \in 1..n :
                               \E r \in DOMAIN regions :
                                   /\ regions[r].buf = b
                                   /\ regions[r].vm_addr + k - 1 = dest + i - 1}
                IN  IF hit = {} THEN m[b][k] ELSE snapshot[CHOOSE i \in hit : TRUE]]]

\* The two ranges of n bytes share a byte.
Overlap(dest, src, n) == n > 0 /\ dest < src + n /\ src < dest + n

\* C4: move(dest, src, n) over in-bounds ranges that overlap, in either direction,
\* leaves memory as snapshot-then-write does, which is also what copy(dest, src, n)
\* leaves from the same memory.
C4_MoveIsSnapshotThenWrite ==
    (/\ Called("sol_memmove_")
     /\ InRegion("Load", Arg(2), Arg(3)) /\ InRegion("Store", Arg(1), Arg(3))
     /\ Overlap(Arg(1), Arg(2), Arg(3)))
        => /\ pc # "panicked"
           /\ result = Ok(0)
           /\ mem = SnapshotThenWrite(pre, Arg(1), Arg(2), Arg(3))
           /\ \A e \in sol_memcpy_syscall(regions, pre, Ok(0), NoSupervisor,
                                          Arg(1), Arg(2), Arg(3), 0, 0) :
                  e.panic = "none" /\ e.mem = mem

\* A move of three bytes one byte down, over a buffer of distinct bytes.
C4_Witness ==
    /\ Called("sol_memmove_")
    /\ Arg(1) = MM_INPUT_START /\ Arg(2) = MM_INPUT_START + 1 /\ Arg(3) = 3
    /\ pre.input = Ramp(MaxInputLen)
    /\ SubSeq(mem.input, 1, 4) = <<2, 3, 4, 4>>

-----------------------------------------------------------------------------
\* C5: after fill(ptr, v, n) over an in-bounds range every byte of the range is
\* v mod 256, the result is 0, and with n = 0 memory is unchanged.
C5_FillWritesLowByte ==
    (Called("sol_memset_") /\ InRegion("Store", Arg(1), Arg(3)))
        => /\ pc # "panicked"
           /\ result = Ok(0)
           /\ \A k \in 1..Arg(3) : GuestByte(mem, Arg(1) + k - 1) = Arg(2) % 256
           /\ Arg(3) = 0 => mem = pre

\* A fill with a value above 255 has written its low byte.
C5_Witness ==
    /\ Called("sol_memset_")
    /\ Arg(1) = MM_INPUT_START + 1 /\ Arg(2) = 256 + 65 /\ Arg(3) = 2
    /\ pre.input = Zeros(MaxInputLen)
    /\ SubSeq(mem.input, 1, 4) = <<0, 65, 65, 0>>

-----------------------------------------------------------------------------
\* The unsigned lexicographic order of two buffers of the same length: -1, 0 or 1
\* by the first index at which they differ.
Lexicographic(a, b) ==
    LET diff == {i \in 1..Len(a) : a[i] # b[i]}
    IN  IF diff = {} THEN 0
        ELSE LET d == CHOOSE i \in diff : \A j \in diff : i <= j
             IN  IF a[d] < b[d] THEN -1 ELSE 1

\* The signed 32-bit value four little-endian bytes stand for.
FromLeBytes(b) ==
    b[1] + 256 * b[2] + 65536 * b[3]
      + 16777216 * (IF b[4] >= 128 THEN b[4] - 256 ELSE b[4])

\* C6: compare over in-bounds ranges writes at result_ptr the little-endian i32
\* -1, 0 or 1 of the unsigned lexicographic order of the n bytes at ptr1 against
\* those at ptr2 (0 for n = 0 and for a buffer against itself), the negation of
\* what it computes for the operands swapped, and the result is 0.
C6_CompareIsLexicographic ==
    (/\ Called("sol_memcmp_")
     /\ InRegion("Load", Arg(1), Arg(3)) /\ InRegion("Load", Arg(2), Arg(3))
     /\ InRegion("Store", Arg(4), I32Bytes))
        => LET a == GuestBytes(pre, Arg(1), Arg(3))
               b == GuestBytes(pre, Arg(2), Arg(3))
               written == GuestBytes(mem, Arg(4), I32Bytes)
           IN  /\ pc # "panicked"
               /\ result = Ok(0)
               /\ FromLeBytes(written) = Lexicographic(a, b)
               /\ written \in {<<255, 255, 255, 255>>, <<0, 0, 0, 0>>, <<1, 0, 0, 0>>}
               /\ FromLeBytes(written) = - OrderingValue(VecCmp(b, a))
               /\ (Arg(3) = 0 \/ Arg(1) = Arg(2)) => FromLeBytes(written) = 0

\* The input, filled with 0x41, compared with the program's four 0x41 bytes: 0 is
\* written to the stack.
C6_Witness ==
    /\ Called("sol_memcmp_")
    /\ Arg(1) = MM_INPUT_START /\ Arg(2) = MM_PROGRAM_START /\ Arg(3) = 4
    /\ Arg(4) = MM_STACK_START
    /\ pre.input = <<65, 65, 65, 65>>
    /\ mem.stack = <<0, 0, 0, 0>>
    /\ pc = "sysret"

-----------------------------------------------------------------------------
\* What holds of every state in which abort has been invoked, and of the outcomes.
AbortOutcome ==
    /\ Called("abort")
          => /\ pc \in {"sysret", "unwrap", "panicked"}
             /\ result = Err("UserError")
             /\ mem = pre
             /\ panic \in {"none", "UserError"}
             /\ pc \in {"unwrap", "panicked"} => Outcome = "UserAbort"
             /\ pc = "panicked" => panic = "UserError"
    /\ Outcome = "UserAbort" => Called("abort")
    /\ result.err = "ExceededMaxInstructions"
          => (remaining = 0 /\ ~Called("abort") /\ Outcome = "BudgetExhausted")
    /\ Outcome = "BoundsFault" => (last.name \in MemoryServices \cup {"ext_syscall"})

\* C7: abort, whatever its arguments, ends the run at once with the UserAbort
\* outcome and leaves memory as it was: once it is invoked no instruction and no
\* syscall executes any more.  No other run has that outcome: a run that exhausts
\* its budget without a syscall, and one that faults on bounds, end differently.
C7_AbortEndsRun ==
    /\ []AbortOutcome
    /\ [][Called("abort")
            => (UNCHANGED <<remaining, last, mem, pre, result, supervisor>>)]_vars

\* abort(u64::MAX, ..) has ended the run: execute is unwinding with the abort.
C7_Witness ==
    /\ Called("abort")
    /\ Arg(1) = WordMax
    /\ pc = "panicked"
    /\ Outcome = "UserAbort"
    /\ remaining = MaxInstructions - 1

-----------------------------------------------------------------------------
\* C8: ext_syscall invokes the supervisor exactly once, with its own five
\* arguments, and whatever the supervisor returns the result is Ok(0) and the run
\* goes on with the next instruction; no other syscall invokes the supervisor.
C8_SupervisorValueDropped ==
    /\ []((Called("ext_syscall") /\ panic = "none")
            => /\ supervisor.calls = 1
               /\ supervisor.args = last.args
               /\ result = Ok(0)
               /\ pc = "sysret")
    /\ [](~Called("ext_syscall") => supervisor = NoSupervisor)
    /\ [][(Called("ext_syscall") /\ pc = "sysret")
            => (pc' = "run" /\ UNCHANGED <<mem, remaining, result>>)]_vars

\* The supervisor has returned u64::MAX and the syscall reports 0.
C8_Witness ==
    /\ Called("ext_syscall")
    /\ supervisor.ret = WordMax
    /\ supervisor.args = <<WordMax, 1, 2, 3, 4>>
    /\ result = Ok(0)
    /\ pc = "sysret"

-----------------------------------------------------------------------------
\* The phase of the session, from what execute has built so far.
Phase ==
    IF pc \in {"unwrap", "returned", "panicked"} THEN "Terminal"
    ELSE IF pc \in {"run", "sysret"} THEN "Running"
    ELSE IF regions # <<>> THEN "Mapped"
    ELSE IF executable = "verified" THEN "Loaded"
    ELSE IF Len(registry) = Len(SyscallNames) THEN "Registered"
    ELSE "Idle"

PhaseRank(p) ==
    CASE p = "Idle" -> 0
      [] p = "Registered" -> 1
      [] p = "Loaded" -> 2
      [] p = "Mapped" -> 3
      [] p = "Running" -> 4
      [] p = "Terminal" -> 5

\* An instruction of the guest program has executed.
Executed == remaining < MaxInstructions /\ Phase \in {"Running", "Terminal"}

-----------------------------------------------------------------------------
\* execute is over and the engine had computed the outcome of the run.
RunEnded ==
    /\ pc \in {"returned", "panicked"}
    /\ Outcome \in {"Completed", "UserAbort", "BudgetExhausted", "RuntimeFault"}

\* C10 as stated: whatever the outcome of the run, execute drops it and returns to
\* its caller.
C10_AsStated == RunEnded => (pc = "returned" /\ panic = "none")

\* C10, amended: execute returns to its caller, without a value, only when the run
\* completed normally, and the u64 the run produced is dropped; a user-raised
\* abort, an exhausted budget and a fault of the engine reach the caller as the
\* panic of the unwrap of the run's result, carrying the error.
C10_OnlySuccessReturns ==
    /\ pc = "returned" => (Outcome = "Completed" /\ panic = "none")
    /\ (RunEnded /\ Outcome = "Completed") => pc = "returned"
    /\ (RunEnded /\ Outcome \in {"UserAbort", "BudgetExhausted", "RuntimeFault"})
          => (pc = "panicked" /\ panic = result.err)

\* A run that exhausted its budget has made execute panic.
C10_Witness ==
    /\ pc = "panicked"
    /\ panic = "ExceededMaxInstructions"
    /\ remaining = 0

====
